---- MODULE Spec2Model ----
(***************************************************************************)
(* Model of perf.py: get_timer (clock-source resolution) and time_func     *)
(* (the timing harness: argument checks, buffer refresh, GC suppression,   *)
(* warm-up, adaptive batch size, measurement loop), and of mod_pyfftw.py:   *)
(* the PyFFTW bridge's cache of the transform object (__invoke).           *)
(*                                                                         *)
(* Time is counted in integer ticks; TicksPerSecond ticks make a second.   *)
(* A measurement time_tot / actual_batch_size is kept as the pair          *)
(* [num, den] of the division's operands.                                  *)
(***************************************************************************)
EXTENDS Integers, Sequences, FiniteSets, TLC

\* ---------------------------------------------------------------- bounds
MaxBatch == 3          \* batch_size ranges over -1..MaxBatch
MaxReps == 2           \* repetitions ranges over -1..MaxReps
MaxWarmTicks == 6      \* duration of the warm-up call of func, in ticks
MaxCallTicks == 1      \* duration of every later call of func, in ticks
MaxMods == 3           \* length of the time_modules argument of get_timer
TicksPerSecond == 1    \* clock resolution of the model
CopyTicks == 1         \* duration of one np.copyto(buf, x), in ticks
MaxInputs == 2         \* distinct (shape, dtype, strides, nbytes) of an input
MaxKwargs == 1         \* distinct keyword dictionaries beyond the default one

\* ------------------------------------------------------ program constants
CeilingSeconds == 5    \* the literal 5 of the batch-size calibration

\* The clock-source modules a caller may name: the ones get_timer's tables
\* know. itimer is a package a host may lack; timeit and time belong to the
\* standard library.
ModuleNames == {"itimer", "timeit", "time"}
StdLib == {"timeit", "time"}
\* keys of the `now` and `time_delta` dictionaries
TimerKeys == {"itimer", "timeit", "time"}
DefaultTimeModules == <<"itimer", "timeit", "time">>

Unbound == "<unbound>"
None == "None"
Uninit == [num |-> -1, den |-> 0]

VARIABLES
  \* --- get_timer
  time_modules,      \* argument of get_timer
  installed,         \* modules importlib.import_module can import
  gt_idx,            \* position of the for loop over time_modules
  timer_name,        \* local timer_name of get_timer (Unbound until assigned)
  gt_caller,         \* who called get_timer: "main" or "time_func"
  gt_result,         \* name of the Timer get_timer returned (None before)
  \* --- time_func arguments and environment
  x_is_array, kwargs_is_dict, timer, batch_size, repetitions, refresh_buffer,
  gc_before,         \* gc.isenabled() when time_func was entered
  warm_ticks,        \* how long func runs in the warm-up call
  call_ticks,        \* how long func runs in every later call
  \* --- time_func state
  pc, exc, gc_enabled, gc_collects, allocs, times_list, buf, clock,
  t0, t1, time_tot, actual_batch_size, i, j, ret,
  loop_bound,        \* the n of the last `for _ in range(n)` evaluated
  \* --- observation of the run (history)
  copies,            \* number of np.copyto(buf, x) executed
  func_calls,        \* number of calls of func started
  iv_calls,          \* calls of func since the last t0 = timer.now()
  iv_copies,         \* copies since the last t0 = timer.now()
  intervals,         \* the (t0, t1) intervals of the current measurement
  warm_latency,      \* time_tot as measured for the warm-up call
  last_left,         \* the buffer's content when func last returned
  measured,          \* one record per times_list[i] assignment
  \* --- PyFFTW bridge (mod_pyfftw.py)
  obj,               \* self.__obj: Nothing, or the configuration the transform
                     \* object it holds was built for
  obj_config,        \* self.__obj_config
  fpc,               \* position inside __invoke ("idle" between calls)
  config,            \* local config of the current (or last) call
  \* --- observation of the bridge's calls (history)
  entry_config,      \* self.__obj_config when the call began
  rebuilt,           \* the call built a new transform object
  executed,          \* configuration the object the call executed was built for
  outcome            \* how the last call ended ("none" while it runs)

gtVars == <<time_modules, installed, gt_idx, timer_name, gt_caller, gt_result>>
argVars == <<x_is_array, kwargs_is_dict, batch_size, repetitions,
             refresh_buffer, gc_before, warm_ticks, call_ticks>>
gcVars == <<gc_enabled, gc_collects>>
memVars == <<allocs, times_list, buf>>
clkVars == <<clock, t0, t1, time_tot>>
loopVars == <<actual_batch_size, i, j, loop_bound>>
histVars == <<copies, func_calls, iv_calls, iv_copies, intervals,
              warm_latency, last_left, measured>>
fftwVars == <<obj, obj_config, fpc, config, entry_config, rebuilt, executed,
              outcome>>
perfVars == <<gtVars, argVars, gcVars, memVars, clkVars, loopVars, histVars,
              timer, pc, exc, ret>>
vars == <<perfVars, fftwVars>>

\* ------------------------------------------------------------- helpers
\* int(a / b) for a >= 0, b > 0: Python's float division followed by
\* truncation toward zero.
IntDiv(a, b) == a \div b

\* len(range(n)): a for loop over range(n) runs n times, and not at all for
\* n <= 0.
RangeLen(n) == IF n > 0 THEN n ELSE 0

\* timer.time_delta(t0, t1) of the 'timeit' and 'time' timers
TimeDelta(a, b) == b - a

RECURSIVE SumDelta(_)
SumDelta(s) == IF s = <<>> THEN 0 ELSE Head(s).delta + SumDelta(Tail(s))

\* np.copyto(dst, src): the content of dst afterwards
CopyTo(dst, src) == src

\* what func may leave in the buffer it was given: untouched, or overwritten
\* in place with its output
FuncLeaves(b) == {b, "fx"}

\* ------------------------------------------------------------ get_timer
\* for mod_name in time_modules: try import_module(mod_name); on ImportError
\* go on, else bind timer_name and break. Falling off the end of the loop
\* leaves timer_name unassigned.
GtTryImport ==
  /\ pc = "gt_loop"
  /\ IF gt_idx > Len(time_modules)
       THEN /\ pc' = "gt_build"
            /\ UNCHANGED <<gt_idx, timer_name>>
       ELSE IF time_modules[gt_idx] \in installed
         THEN /\ timer_name' = time_modules[gt_idx]
              /\ pc' = "gt_build"
              /\ UNCHANGED gt_idx
         ELSE /\ gt_idx' = gt_idx + 1
              /\ UNCHANGED <<pc, timer_name>>
  /\ UNCHANGED <<time_modules, installed, gt_caller, gt_result>>
  /\ UNCHANGED <<argVars, fftwVars, gcVars, memVars, clkVars, loopVars, histVars>>
  /\ UNCHANGED <<timer, exc, ret>>

\* The exception `{...}[timer_name]` raises, "none" when the lookup succeeds:
\* reading the unassigned local is an UnboundLocalError, a name that is no
\* key of the dictionary a KeyError.
LookupError(name) ==
  IF name = Unbound THEN "UnboundLocalError"
  ELSE IF name \notin TimerKeys THEN "KeyError"
  ELSE "none"

\* now = {...}[timer_name]; time_delta = {...}[timer_name]; return Timer(...)
GtBuild ==
  /\ pc = "gt_build"
  /\ IF LookupError(timer_name) # "none"
       THEN /\ exc' = LookupError(timer_name)
            /\ pc' = "raised"
            /\ UNCHANGED <<gt_result, timer>>
       ELSE /\ gt_result' = timer_name
            /\ IF gt_caller = "time_func"
                 THEN timer' = timer_name /\ pc' = "alloc_times"
                 ELSE timer' = timer /\ pc' = "gt_returned"
            /\ UNCHANGED exc
  /\ UNCHANGED <<time_modules, installed, gt_idx, timer_name, gt_caller>>
  /\ UNCHANGED <<argVars, fftwVars, gcVars, memVars, clkVars, loopVars, histVars, ret>>

\* ------------------------------------------------------------ time_func
\* ArgsValid with the kwargs check forgotten
ArgsValid_OnlyX(xa, kd) == xa

\* isinstance(x, np.ndarray) and isinstance(kwargs, dict)
ArgsValid(xa, kd) == xa /\ kd

\* if not isinstance(x, np.ndarray): raise ValueError(...)
\* if not isinstance(kwargs, dict): raise ValueError(...)
CheckArgs ==
  /\ pc = "start"
  /\ IF ArgsValid(x_is_array, kwargs_is_dict)
       THEN pc' = "timer" /\ UNCHANGED exc
       ELSE pc' = "raised" /\ exc' = "ValueError"
  /\ UNCHANGED <<gtVars, argVars, fftwVars, gcVars, memVars, clkVars, loopVars,
                 histVars, timer, ret>>

\* if not timer: timer = get_timer()
ResolveTimer ==
  /\ pc = "timer"
  /\ IF timer = None
       THEN /\ pc' = "gt_loop"
            /\ time_modules' = DefaultTimeModules
            /\ gt_idx' = 1
            /\ timer_name' = Unbound
            /\ gt_caller' = "time_func"
       ELSE /\ pc' = "alloc_times"
            /\ UNCHANGED <<time_modules, gt_idx, timer_name, gt_caller>>
  /\ UNCHANGED <<installed, gt_result>>
  /\ UNCHANGED <<argVars, fftwVars, gcVars, memVars, clkVars, loopVars, histVars,
                 timer, exc, ret>>

\* times_list = np.empty((repetitions,), dtype=np.float64); numpy refuses a
\* negative dimension with ValueError
AllocTimes ==
  /\ pc = "alloc_times"
  /\ IF repetitions < 0
       THEN /\ pc' = "raised" /\ exc' = "ValueError"
            /\ UNCHANGED <<allocs, times_list>>
       ELSE /\ times_list' = [k \in 1..repetitions |-> Uninit]
            /\ allocs' = allocs + 1
            /\ pc' = "alloc_buf"
            /\ UNCHANGED exc
  /\ UNCHANGED <<gtVars, argVars, fftwVars, gcVars, clkVars, loopVars, histVars,
                 timer, ret, buf>>

\* buf = np.empty_like(x)
AllocBuf ==
  /\ pc = "alloc_buf"
  /\ buf' = "uninit"
  /\ allocs' = allocs + 1
  /\ pc' = "copy_init"
  /\ UNCHANGED <<gtVars, argVars, fftwVars, gcVars, clkVars, loopVars, histVars,
                 timer, exc, ret, times_list>>

\* np.copyto(buf, x)
CopyInit ==
  /\ pc = "copy_init"
  /\ buf' = CopyTo(buf, "x")
  /\ copies' = copies + 1
  /\ iv_copies' = iv_copies + 1
  /\ clock' = clock + CopyTicks
  /\ pc' = "gc_collect"
  /\ UNCHANGED <<gtVars, argVars, fftwVars, gcVars, loopVars, timer, exc, ret>>
  /\ UNCHANGED <<allocs, times_list, t0, t1, time_tot>>
  /\ UNCHANGED <<func_calls, iv_calls, intervals, warm_latency, last_left, measured>>

\* gc.collect()
GcCollect ==
  /\ pc = "gc_collect"
  /\ gc_collects' = gc_collects + 1
  /\ pc' = "gc_disable"
  /\ UNCHANGED <<gtVars, argVars, fftwVars, memVars, clkVars, loopVars, histVars,
                 timer, exc, ret, gc_enabled>>

\* GcDisable with the gc.disable() forgotten
GcDisable_Missing ==
  /\ pc = "gc_disable"
  /\ pc' = "warm_t0"
  /\ UNCHANGED <<gtVars, argVars, fftwVars, gcVars, memVars, clkVars, loopVars,
                 histVars, timer, exc, ret>>

\* gc.disable()
GcDisable ==
  /\ pc = "gc_disable"
  /\ gc_enabled' = FALSE
  /\ pc' = "warm_t0"
  /\ UNCHANGED <<gtVars, argVars, fftwVars, memVars, clkVars, loopVars, histVars,
                 timer, exc, ret, gc_collects>>

\* res = func(buf, **kwargs), func running for `dur` ticks: it returns,
\* leaving the buffer untouched or overwritten, or it raises and the
\* exception leaves time_func (no try/except/finally encloses the call).
CallFunc(dur, next) ==
  /\ func_calls' = func_calls + 1
  /\ iv_calls' = iv_calls + 1
  /\ clock' = clock + dur
  /\ \/ /\ buf' \in FuncLeaves(buf)
        /\ last_left' = buf'
        /\ pc' = next
        /\ UNCHANGED exc
     \/ /\ buf' = buf
        /\ pc' = "raised"
        /\ exc' = "FuncError"
        /\ UNCHANGED last_left
  /\ UNCHANGED <<gtVars, argVars, fftwVars, gcVars, loopVars, timer, ret>>
  /\ UNCHANGED <<allocs, times_list, t0, t1, time_tot>>
  /\ UNCHANGED <<copies, iv_copies, intervals, warm_latency, measured>>

\* t0 = timer.now()
SampleT0(next) ==
  /\ t0' = clock
  /\ iv_calls' = 0
  /\ iv_copies' = 0
  /\ pc' = next
  /\ UNCHANGED <<gtVars, argVars, fftwVars, gcVars, memVars, loopVars, timer, exc, ret>>
  /\ UNCHANGED <<clock, t1, time_tot>>
  /\ UNCHANGED <<copies, func_calls, intervals, warm_latency, last_left, measured>>

\* the interval closed by t1 = timer.now(): what ran inside it and
\* timer.time_delta(t0, t1)
Interval == [calls |-> iv_calls, copies |-> iv_copies,
             delta |-> TimeDelta(t0, clock)]

\* warm-up: t0 = timer.now()
WarmT0 == pc = "warm_t0" /\ SampleT0("warm_call")

\* warm-up: res = func(buf, **kwargs)
WarmCall == pc = "warm_call" /\ CallFunc(warm_ticks, "warm_t1")

\* warm-up: t1 = timer.now(); time_tot = timer.time_delta(t0, t1)
WarmT1 ==
  /\ pc = "warm_t1"
  /\ t1' = clock
  /\ time_tot' = TimeDelta(t0, t1')
  /\ warm_latency' = time_tot'
  /\ pc' = "calibrate"
  /\ UNCHANGED <<gtVars, argVars, fftwVars, gcVars, memVars, loopVars, timer, exc, ret>>
  /\ UNCHANGED <<clock, t0>>
  /\ UNCHANGED <<copies, func_calls, iv_calls, iv_copies, intervals, measured,
                 last_left>>

\* EffectiveBatch with the "1 +" forgotten
EffectiveBatch_NoPlusOne(tt, bs) ==
  IF tt * bs > CeilingSeconds * TicksPerSecond
    THEN IntDiv(CeilingSeconds * TicksPerSecond, tt)
    ELSE bs

\* actual_batch_size = batch_size
\* if time_tot * batch_size > 5: actual_batch_size = 1 + int(5/time_tot)
\* (tt in ticks, so the 5 seconds are CeilingSeconds * TicksPerSecond ticks)
EffectiveBatch(tt, bs) ==
  IF tt * bs > CeilingSeconds * TicksPerSecond
    THEN 1 + IntDiv(CeilingSeconds * TicksPerSecond, tt)
    ELSE bs

Calibrate ==
  /\ pc = "calibrate"
  /\ actual_batch_size' = EffectiveBatch(time_tot, batch_size)
  /\ i' = 0
  /\ pc' = "outer"
  /\ UNCHANGED <<gtVars, argVars, fftwVars, gcVars, memVars, clkVars, histVars,
                 timer, exc, ret, j, loop_bound>>

\* OuterNext with the `time_tot = 0` forgotten
OuterNext_NoReset ==
  /\ pc = "outer"
  /\ IF i < repetitions
       THEN /\ intervals' = <<>>
            /\ pc' = IF refresh_buffer THEN "refresh_loop" ELSE "batch_t0"
            /\ j' = 0
       ELSE /\ pc' = "gc_enable"
            /\ UNCHANGED <<intervals, j>>
  /\ UNCHANGED <<gtVars, argVars, fftwVars, gcVars, memVars, clkVars, timer, exc, ret>>
  /\ UNCHANGED <<actual_batch_size, i, loop_bound>>
  /\ UNCHANGED <<copies, func_calls, iv_calls, iv_copies, warm_latency,
                 last_left, measured>>

\* for i in range(repetitions): time_tot = 0; if refresh_buffer: ... else: ...
\* and, the loop over, on to gc.enable()
OuterNext ==
  /\ pc = "outer"
  /\ IF i < repetitions
       THEN /\ time_tot' = 0
            /\ intervals' = <<>>
            /\ pc' = IF refresh_buffer THEN "refresh_loop" ELSE "batch_t0"
            /\ j' = 0
       ELSE /\ pc' = "gc_enable"
            /\ UNCHANGED <<time_tot, intervals, j>>
  /\ UNCHANGED <<gtVars, argVars, fftwVars, gcVars, memVars, timer, exc, ret>>
  /\ UNCHANGED <<clock, t0, t1, actual_batch_size, i, loop_bound>>
  /\ UNCHANGED <<copies, func_calls, iv_calls, iv_copies, warm_latency, last_left, measured>>

\* one test of `for _ in range(n)`: into the body (at `body`) while
\* iterations are left, else past the loop (at `after`)
ForRange(n, body, after) ==
  /\ loop_bound' = n
  /\ pc' = IF j < RangeLen(n) THEN body ELSE after
  /\ UNCHANGED <<gtVars, argVars, fftwVars, gcVars, memVars, clkVars, histVars,
                 timer, exc, ret, actual_batch_size, i, j>>

\* refresh mode: for _ in range(actual_batch_size):
RefreshLoop ==
  pc = "refresh_loop" /\ ForRange(actual_batch_size, "refresh_copy", "record")

\* RefreshCopy with the np.copyto forgotten
RefreshCopy_Skipped ==
  /\ pc = "refresh_copy"
  /\ pc' = "refresh_t0"
  /\ UNCHANGED <<gtVars, argVars, fftwVars, gcVars, memVars, clkVars, loopVars,
                 histVars, timer, exc, ret>>

\* refresh mode: np.copyto(buf, x)
RefreshCopy ==
  /\ pc = "refresh_copy"
  /\ buf' = CopyTo(buf, "x")
  /\ copies' = copies + 1
  /\ iv_copies' = iv_copies + 1
  /\ clock' = clock + CopyTicks
  /\ pc' = "refresh_t0"
  /\ UNCHANGED <<gtVars, argVars, fftwVars, gcVars, loopVars, timer, exc, ret>>
  /\ UNCHANGED <<allocs, times_list, t0, t1, time_tot>>
  /\ UNCHANGED <<func_calls, iv_calls, intervals, warm_latency, last_left, measured>>

\* refresh mode: t0 = timer.now()
RefreshT0 == pc = "refresh_t0" /\ SampleT0("refresh_call")

\* refresh mode: res = func(buf, **kwargs)
RefreshCall == pc = "refresh_call" /\ CallFunc(call_ticks, "refresh_t1")

\* t1 = timer.now(); time_tot += timer.time_delta(t0, t1)
SampleT1(next) ==
  /\ t1' = clock
  /\ time_tot' = time_tot + TimeDelta(t0, t1')
  /\ intervals' = Append(intervals, Interval)
  /\ pc' = next
  /\ UNCHANGED <<gtVars, argVars, fftwVars, gcVars, memVars, timer, exc, ret>>
  /\ UNCHANGED <<clock, t0, actual_batch_size, i, loop_bound>>
  /\ UNCHANGED <<copies, func_calls, iv_calls, iv_copies, warm_latency, last_left, measured>>

\* refresh mode: t1 = timer.now(); time_tot += ...; next iteration
RefreshT1 == pc = "refresh_t1" /\ SampleT1("refresh_loop") /\ j' = j + 1

\* BatchT0 with the buffer copied again at the start of every measurement
BatchT0_Recopy ==
  /\ pc = "batch_t0"
  /\ buf' = CopyTo(buf, "x")
  /\ copies' = copies + 1
  /\ clock' = clock + CopyTicks
  /\ t0' = clock'
  /\ iv_calls' = 0
  /\ iv_copies' = 0
  /\ pc' = "batch_loop"
  /\ UNCHANGED <<gtVars, argVars, fftwVars, gcVars, loopVars, timer, exc, ret>>
  /\ UNCHANGED <<allocs, times_list, t1, time_tot>>
  /\ UNCHANGED <<func_calls, intervals, warm_latency, last_left, measured>>

\* batch mode: t0 = timer.now()
BatchT0 == pc = "batch_t0" /\ SampleT0("batch_loop")

\* batch mode: for _ in range(actual_batch_size):
BatchLoop ==
  pc = "batch_loop" /\ ForRange(actual_batch_size, "batch_call", "batch_t1")

\* batch mode: res = func(buf, **kwargs); next iteration
BatchCall ==
  /\ pc = "batch_call"
  /\ func_calls' = func_calls + 1
  /\ iv_calls' = iv_calls + 1
  /\ clock' = clock + call_ticks
  /\ j' = j + 1
  /\ \/ /\ buf' \in FuncLeaves(buf)
        /\ last_left' = buf'
        /\ pc' = "batch_loop"
        /\ UNCHANGED exc
     \/ /\ buf' = buf
        /\ pc' = "raised"
        /\ exc' = "FuncError"
        /\ UNCHANGED last_left
  /\ UNCHANGED <<gtVars, argVars, fftwVars, gcVars, timer, ret>>
  /\ UNCHANGED <<allocs, times_list, t0, t1, time_tot>>
  /\ UNCHANGED <<actual_batch_size, i, loop_bound>>
  /\ UNCHANGED <<copies, iv_copies, intervals, warm_latency, measured>>

\* batch mode: t1 = timer.now(); time_tot += timer.time_delta(t0, t1)
BatchT1 == pc = "batch_t1" /\ SampleT1("record") /\ j' = j

\* times_list[i] = time_tot / actual_batch_size: a division by zero raises
\* ZeroDivisionError
Record ==
  /\ pc = "record"
  /\ IF actual_batch_size = 0
       THEN /\ pc' = "raised" /\ exc' = "ZeroDivisionError"
            /\ UNCHANGED <<times_list, measured, i>>
       ELSE /\ times_list' = [times_list EXCEPT
                 ![i + 1] = [num |-> time_tot, den |-> actual_batch_size]]
            /\ measured' = Append(measured,
                 [num |-> time_tot, den |-> actual_batch_size,
                  bound |-> loop_bound, iters |-> j, ivs |-> intervals])
            /\ i' = i + 1
            /\ pc' = "outer"
            /\ UNCHANGED exc
  /\ UNCHANGED <<gtVars, argVars, fftwVars, gcVars, clkVars, timer, ret>>
  /\ UNCHANGED <<allocs, buf, actual_batch_size, j, loop_bound>>
  /\ UNCHANGED <<copies, func_calls, iv_calls, iv_copies, intervals, warm_latency,
                 last_left>>

\* gc.enable()
GcEnable ==
  /\ pc = "gc_enable"
  /\ gc_enabled' = TRUE
  /\ pc' = "return"
  /\ UNCHANGED <<gtVars, argVars, fftwVars, memVars, clkVars, loopVars, histVars,
                 timer, exc, ret, gc_collects>>

\* return (times_list, res)
Return ==
  /\ pc = "return"
  /\ ret' = times_list
  /\ pc' = "returned"
  /\ UNCHANGED <<gtVars, argVars, fftwVars, gcVars, memVars, clkVars, loopVars,
                 histVars, timer, exc>>

\* ------------------------------------------------- PyFFTW bridge
FuncNames == {"fft", "rfft", "fft2", "rfft2", "fftn", "rfftn"}

\* config = {'func': func_name, 'input': self.__build_config(a),
\*           'kwargs': self.__build_kwargs(n, dim, norm, overwrite_x, workers)}
\* a: which (shape, dtype, strides, nbytes) the array has; kw: which keyword
\* dictionary the arguments give
BuildConfig(f, a, kw) == [func |-> f, input |-> a, kwargs |-> kw]

Configs == {BuildConfig(f, a, kw) :
              f \in FuncNames, a \in 1..MaxInputs, kw \in 0..MaxKwargs}

\* Python's None as the value of self.__obj, self.__obj_config and config: a
\* record like a configuration, equal to none of them
Nothing == [func |-> None, input |-> 0, kwargs |-> 0]

\* __init__: self.__obj = None; self.__obj_config = None
FftwConstructed ==
  /\ obj = Nothing /\ obj_config = Nothing
  /\ fpc = "idle" /\ config = Nothing
  /\ entry_config = Nothing /\ rebuilt = FALSE /\ executed = Nothing
  /\ outcome = "none"

\* fft / rfft / fft2 / rfft2 / fftn / rfftn: self.__invoke(name, a, ...),
\* which first builds config
FftwCall ==
  /\ fpc = "idle"
  /\ \E f \in FuncNames, a \in 1..MaxInputs, kw \in 0..MaxKwargs :
       config' = BuildConfig(f, a, kw)
  /\ entry_config' = obj_config
  /\ rebuilt' = FALSE
  /\ executed' = Nothing
  /\ outcome' = "none"
  /\ fpc' = "check"
  /\ UNCHANGED <<perfVars, obj, obj_config>>

\* if self.__obj_config is None or self.__obj_config != config
MustRebuild(cached, cfg) == cached = Nothing \/ cached # cfg

\* the test of __invoke and, the configuration being new,
\* self.__obj_config = config
FftwCheck ==
  /\ fpc = "check"
  /\ IF MustRebuild(obj_config, config)
       THEN obj_config' = config /\ fpc' = "build"
       ELSE obj_config' = obj_config /\ fpc' = "exec"
  /\ UNCHANGED <<perfVars, obj, config, entry_config, rebuilt, executed,
                 outcome>>

\* self.__obj = self.func(func_name)(a, **config['kwargs']): the builder
\* returns a transform object for config, or it raises and the exception
\* leaves __invoke with self.__obj not assigned
FftwBuild ==
  /\ fpc = "build"
  /\ \/ /\ obj' = config
        /\ rebuilt' = TRUE
        /\ fpc' = "exec"
        /\ UNCHANGED outcome
     \/ /\ outcome' = "BuilderError"
        /\ fpc' = "idle"
        /\ UNCHANGED <<obj, rebuilt>>
  /\ UNCHANGED <<perfVars, obj_config, config, entry_config, executed>>

\* return self.__obj(a): calling None is a TypeError
FftwExec ==
  /\ fpc = "exec"
  /\ IF obj = Nothing
       THEN outcome' = "TypeError" /\ UNCHANGED executed
       ELSE outcome' = "returned" /\ executed' = obj
  /\ fpc' = "idle"
  /\ UNCHANGED <<perfVars, obj, obj_config, config, entry_config, rebuilt>>

\* ------------------------------------------------------- specifications
\* the locals of time_func and the history, before anything ran
LocalsInit ==
  /\ exc = "none" /\ ret = None
  /\ gc_collects = 0 /\ allocs = 0 /\ times_list = <<>> /\ buf = "unalloc"
  /\ clock = 0 /\ t0 = 0 /\ t1 = 0 /\ time_tot = 0
  /\ actual_batch_size = 0 /\ i = 0 /\ j = 0 /\ loop_bound = 0
  /\ copies = 0 /\ func_calls = 0 /\ iv_calls = 0 /\ iv_copies = 0
  /\ intervals = <<>> /\ warm_latency = 0 /\ measured = <<>>
  /\ last_left = "unalloc"
  /\ gt_idx = 1 /\ timer_name = Unbound /\ gt_result = None
  /\ FftwConstructed

\* the host: the standard library, with or without the itimer package
Hosts == {StdLib, StdLib \cup {"itimer"}}

\* a call time_func(func, x, kwargs, timer, batch_size, repetitions,
\* refresh_buffer), with the collector enabled or disabled beforehand
Init ==
  /\ pc = "start"
  /\ x_is_array \in BOOLEAN
  /\ kwargs_is_dict \in BOOLEAN
  /\ timer \in {None} \cup TimerKeys
  /\ installed \in Hosts
  /\ batch_size \in -1..MaxBatch
  /\ repetitions \in -1..MaxReps
  /\ refresh_buffer \in BOOLEAN
  /\ gc_before \in BOOLEAN
  /\ gc_enabled = gc_before
  /\ warm_ticks \in 0..MaxWarmTicks
  /\ call_ticks \in 0..MaxCallTicks
  /\ time_modules = <<>>
  /\ gt_caller = "time_func"
  /\ LocalsInit

Next ==
  \/ CheckArgs \/ ResolveTimer \/ GtTryImport \/ GtBuild
  \/ AllocTimes \/ AllocBuf \/ CopyInit \/ GcCollect \/ GcDisable
  \/ WarmT0 \/ WarmCall \/ WarmT1 \/ Calibrate \/ OuterNext
  \/ RefreshLoop \/ RefreshCopy \/ RefreshT0 \/ RefreshCall \/ RefreshT1
  \/ BatchT0 \/ BatchLoop \/ BatchCall \/ BatchT1
  \/ Record \/ GcEnable \/ Return

Spec == Init /\ [][Next]_vars

\* sequences over S of length at most n
SeqsUpTo(S, n) == UNION {[1..k -> S] : k \in 0..n}

\* a direct call get_timer(time_modules)
InitTimer ==
  /\ pc = "gt_loop"
  /\ gt_caller = "main"
  /\ time_modules \in SeqsUpTo(ModuleNames, MaxMods)
  /\ installed \in Hosts
  /\ timer = None
  /\ x_is_array = TRUE /\ kwargs_is_dict = TRUE
  /\ batch_size = 1 /\ repetitions = 0 /\ refresh_buffer = TRUE
  /\ gc_before = TRUE /\ gc_enabled = TRUE
  /\ warm_ticks = 0 /\ call_ticks = 0
  /\ LocalsInit

NextTimer == GtTryImport \/ GtBuild

SpecTimer == InitTimer /\ [][NextTimer]_vars

\* a PyFFTW_Builders instance and the calls made on it; nothing of perf.py
\* runs
InitFFTW ==
  /\ pc = "idle"
  /\ gt_caller = "main"
  /\ time_modules = <<>>
  /\ installed = StdLib
  /\ timer = None
  /\ x_is_array = TRUE /\ kwargs_is_dict = TRUE
  /\ batch_size = 1 /\ repetitions = 0 /\ refresh_buffer = TRUE
  /\ gc_before = TRUE /\ gc_enabled = TRUE
  /\ warm_ticks = 0 /\ call_ticks = 0
  /\ LocalsInit

NextFFTW == FftwCall \/ FftwCheck \/ FftwBuild \/ FftwExec

SpecFFTW == InitFFTW /\ [][NextFFTW]_vars

\* --------------------------------------------------------------- claims
\* time_func (or get_timer) has been left, by return or by exception
Exited == pc \in {"returned", "raised"}

\* an exception raised by func is leaving time_func
FuncRaised == pc = "raised" /\ exc = "FuncError"

\* the places of time_func at which func is about to be called
CallPCs == {"warm_call", "refresh_call", "batch_call"}

\* the places from gc.disable() up to, not including, gc.enable()
SuppressedPCs ==
  {"warm_t0", "warm_call", "warm_t1", "calibrate", "outer",
   "refresh_loop", "refresh_copy", "refresh_t0", "refresh_call", "refresh_t1",
   "batch_t0", "batch_loop", "batch_call", "batch_t1", "record", "gc_enable"}

\* the places after the batch-size calibration
CalibratedPCs ==
  (SuppressedPCs \ {"warm_t0", "warm_call", "warm_t1", "calibrate"})
    \cup {"return", "returned"}

\* C1: whenever time_func has been left (return, argument error, exception
\* of func), the collector is enabled exactly if it was enabled on entry.
C1_GcStateRestored == Exited => (gc_enabled = gc_before)

\* C2: when an exception of func leaves time_func (the model hands it on
\* unchanged, the code having no handler), the collector, enabled on entry,
\* is enabled again.
C2_FuncErrorLeavesGcEnabled == (FuncRaised /\ gc_before) => gc_enabled

\* a measurement num / den is a number >= 0
NonNegative(m) == m.den # 0 /\ m.num * m.den >= 0

\* C3: a call with an array x, a dict kwargs and a repetitions numpy accepts
\* as a length, in which func never raises, returns a series of exactly
\* `repetitions` entries, each >= 0.
C3_SeriesLengthAndSign ==
  (Exited /\ x_is_array /\ kwargs_is_dict /\ repetitions >= 0 /\ ~FuncRaised)
    => /\ pc = "returned"
       /\ Len(ret) = repetitions
       /\ \A k \in 1..Len(ret) : NonNegative(ret[k])

\* C4: with x no array or kwargs no dict, time_func raises ValueError as its
\* first step and nothing else has happened: no timer resolved, nothing
\* allocated or copied, func never called, the collector neither run nor
\* switched.
C4_InvalidArgsNoEffect ==
  ~(x_is_array /\ kwargs_is_dict) =>
    /\ pc \in {"start", "raised"}
    /\ pc = "raised" => exc = "ValueError"
    /\ gt_result = None /\ timer_name = Unbound
    /\ allocs = 0 /\ buf = "unalloc" /\ times_list = <<>> /\ copies = 0
    /\ func_calls = 0
    /\ gc_collects = 0 /\ gc_enabled = gc_before

C4_Witness ==
  /\ ~kwargs_is_dict /\ x_is_array
  /\ pc = "raised" /\ exc = "ValueError"

\* the effective batch size of the claim, from the measured warm-up latency
\* L (in ticks) and the requested batch size
ClaimedBatch(L, bs) ==
  IF L * bs > 5 * TicksPerSecond
    THEN 1 + ((5 * TicksPerSecond) \div L)
    ELSE bs

C6_RefreshedBufferEqualsInput ==
  (refresh_buffer /\ pc \in CallPCs) => buf = "x"

\* a timed call in refresh mode, after a call that overwrote the buffer
C6_Witness ==
  /\ refresh_buffer /\ pc = "refresh_call"
  /\ func_calls >= 2 /\ last_left = "fx" /\ buf = "x"

\* C7: in non-refresh mode x is copied into the buffer once, before the
\* warm-up call, and never again.
C7_SingleCopyBeforeWarmup ==
  ~refresh_buffer =>
    /\ copies <= 1
    /\ (pc \in {"warm_t0", "warm_call"} \/ func_calls > 0) => copies = 1

C7_Witness ==
  /\ ~refresh_buffer /\ pc = "returned"
  /\ func_calls >= 3 /\ Len(measured) >= 2 /\ copies = 1 /\ buf = "fx"

\* C8: get_timer ends by returning the Timer of the first candidate that is
\* installed, and when none is, by raising UnavailableClock.
FirstInstalled(mods) ==
  mods[CHOOSE k \in 1..Len(mods) :
         /\ mods[k] \in installed
         /\ \A m \in 1..(k - 1) : mods[m] \notin installed]

C8_FirstAvailableOrUnavailableClock ==
  (gt_caller = "main" /\ pc \in {"gt_returned", "raised"}) =>
    IF \E k \in 1..Len(time_modules) : time_modules[k] \in installed
      THEN pc = "gt_returned" /\ gt_result = FirstInstalled(time_modules)
      ELSE pc = "raised" /\ exc = "UnavailableClock"

\* C9: gc.collect() runs once and gc.disable() is the very next step; the
\* collector is disabled whenever func is about to be called and at every
\* place up to gc.enable(), which runs only with all `repetitions`
\* measurements recorded.
C9_CollectOnceThenSuppressed ==
  /\ [](/\ gc_collects <= 1
        /\ pc \in SuppressedPCs => (gc_collects = 1 /\ ~gc_enabled)
        /\ pc \in {"return", "returned"} => gc_collects = 1)
  /\ [][/\ gc_collects' # gc_collects =>
             (gc_collects = 0 /\ pc' = "gc_disable" /\ func_calls = 0)
        /\ pc = "gc_disable" => (~gc_enabled' /\ gc_collects' = gc_collects)
        /\ (~gc_enabled /\ gc_enabled') =>
             (pc = "gc_enable" /\ Len(measured) = repetitions)]_vars

C9_Witness ==
  /\ gc_before /\ pc = "gc_enable" /\ ~gc_enabled
  /\ gc_collects = 1 /\ func_calls >= 3 /\ Len(measured) = repetitions

C11_EffectiveBatchBounds ==
  /\ pc \in CalibratedPCs =>
       /\ 1 <= actual_batch_size
       /\ actual_batch_size <= batch_size
       /\ warm_latency * batch_size > 5 * TicksPerSecond =>
            actual_batch_size * warm_latency
              <= 5 * TicksPerSecond + warm_latency
  /\ pc = "raised" => exc # "ZeroDivisionError"

\* C12: between the calls on a bridge instance the cached object is the one
\* built for the cached configuration; a call that ran to its end executed
\* an object built for its own configuration, building one exactly if its
\* configuration differed from the cached one.
C12_CacheMatchesConfig ==
  /\ (fpc = "idle" /\ obj_config # Nothing) => obj = obj_config
  /\ fpc = "exec" => obj = config
  /\ executed # Nothing => executed = config
  /\ outcome \in {"returned", "TypeError"} =>
       /\ outcome = "returned"
       /\ rebuilt = (entry_config # config)

====
